---- MODULE Spec2Model ----
(***************************************************************************)
(* The mint saga of src/services/mintService.ts (executeMintFlow) over a   *)
(* MongoDB-style document store with multi-document transactions.          *)
(*                                                                         *)
(* Committed collections are the variables wallet, ledger, requests,       *)
(* assets, receipts and audits.  Every invocation of executeMintFlow is a  *)
(* record of inv: its payload, its position in the function (pc), the      *)
(* writes its open transaction has buffered (tx) and what it returned or   *)
(* threw.  One action per awaited call of the function.                    *)
(*                                                                         *)
(* Storage semantics used (MongoDB): writes made with { session } become   *)
(* visible at commitTransaction and are discarded by abortTransaction; a   *)
(* write to a document another open transaction has written fails with a   *)
(* write conflict; an insert that repeats a unique key fails; an equality  *)
(* filter on an undefined value matches the documents that lack the field. *)
(*                                                                         *)
(* The schemas of CreditWallet, CreditLedger, MintRequest, MintReceipt and *)
(* AuditEvent are imported by the service but are not among the sources;   *)
(* their unique indexes are those of the persisted state layout of the     *)
(* specification: LedgerEntry{idempotencyKey}, MintRequest{(userId,        *)
(* idempotencyKey)}, MintReceipt{(userId, idempotencyKey)}.  A unique      *)
(* index counts a missing field as one more value, so two documents that   *)
(* both lack idempotencyKey and share userId collide.  The fields a        *)
(* document has are the fields the service writes: MintReceipt.create      *)
(* passes no idempotencyKey, so receipts carry NoKey in its place.         *)
(***************************************************************************)
EXTENDS Integers, FiniteSets, Sequences, TLC

\* ------------------------------------------------------------------ bounds
MaxInv == 2

Invs    == 1..MaxInv
Users   == {"u1", "u2"}
NoKey   == "undefined"
Keys    == {"k1", NoKey}
Prices  == {30}
Tokens  == {"t1", "t2"}
\* base64 text as sequences of sextets: <<16,20,9,3>> is "QUJD", three
\* bytes; <<16>> is "Q", a non-empty text that decodes to no byte
Images    == {<<16, 20, 9, 3>>}
AnyImages == {<<16, 20, 9, 3>>, <<16>>}
InitBalance == [u \in Users |-> IF u = "u1" THEN 70 ELSE 40]

None == "none"

\* --------------------------------------------------------------- errors
INSUFFICIENT_CREDITS    == "INSUFFICIENT_CREDITS"
IMAGE_GENERATION_FAILED == "IMAGE_GENERATION_FAILED"
PROVIDER_ERROR          == "PROVIDER_ERROR"
TYPE_ERROR              == "TypeError"
WRITE_CONFLICT          == "WriteConflict"
DUPLICATE_KEY           == "E11000"
STORAGE_ERROR           == "STORAGE_ERROR"

VARIABLES wallet, ledger, requests, assets, receipts, audits, inv

vars == <<wallet, ledger, requests, assets, receipts, audits, inv>>
db   == <<wallet, ledger, requests, assets, receipts, audits>>

\* ------------------------------------------------------- transactions
NoWallet == [balance |-> 0, lockedBalance |-> 0]
NoTx == [hasWallet |-> FALSE, wallet |-> NoWallet, ledger |-> {},
         requests |-> {}, assets |-> {}, receipts |-> {}, audits |-> {}]

Idle == [pc |-> "idle", userId |-> "u1", key |-> NoKey, price |-> 30,
         tx |-> NoTx, tokenId |-> None, image |-> <<>>, error |-> None,
         annotated |-> None, thrown |-> None, result |-> {}]

InvUser(i)  == inv[i].userId
InvKey(i)   == inv[i].key
InvPrice(i) == inv[i].price

\* pcs at which the invocation's transaction is open
TxPcs == {"lock", "lockLedger", "request", "generate", "asset", "settle",
          "spendLedger", "receipt", "complete", "audit", "commit"}
\* pcs whose awaited call is a storage operation
StoragePcs == TxPcs \ {"generate"}

Open(j) == inv[j].pc \in TxPcs

\* documents written by the open transactions of the invocations in J
PendingLedger(J)   == UNION {inv[j].tx.ledger   : j \in J}
PendingRequests(J) == UNION {inv[j].tx.requests : j \in J}
PendingAssets(J)   == UNION {inv[j].tx.assets   : j \in J}
PendingReceipts(J) == UNION {inv[j].tx.receipts : j \in J}

\* ------------------------------------------------ the idempotency gate
\* MintReceipt.findOne({ userId, idempotencyKey }): equality on both fields;
\* a document that lacks idempotencyKey carries NoKey and is matched by an
\* undefined key only.
GateMatch(r, u, k) == r.userId = u /\ r.idempotencyKey = k

\* --------------------------------------------------------- the wallet
\* the guard dropped from the filter
LockGuard_Always(w, p) == TRUE

LockGuard(w, p) == w.balance >= p

LockedWallet(w, p) ==
    [balance |-> w.balance - p, lockedBalance |-> w.lockedBalance + p]

\* the settle that leaves the funds locked
SettledWallet_NoOp(w, p) == w

\* the settle that takes the price from the balance a second time
SettledWallet_FromBalance(w, p) ==
    [balance |-> w.balance - p, lockedBalance |-> w.lockedBalance - p]

SettledWallet(w, p) == [w EXCEPT !.lockedBalance = @ - p]

\* the lock written without { session }: it lands in the committed wallets
LockWrite_NoSession(W, t, u, p) ==
    [wallet |-> [W EXCEPT ![u] = LockedWallet(W[u], p)], tx |-> t]

\* findOneAndUpdate(..., { session, new: true }): the write is buffered in
\* the transaction t, the committed wallets W are untouched.
LockWrite(W, t, u, p) ==
    [wallet |-> W,
     tx     |-> [t EXCEPT !.hasWallet = TRUE, !.wallet = LockedWallet(W[u], p)]]

\* the wallet an operation of transaction t reads
TxWallet(W, t, u) == IF t.hasWallet THEN t.wallet ELSE W[u]

\* updateOne({ userId }, { $inc: { lockedBalance: -p } }, { session })
SettleWrite(W, t, u, p) ==
    [t EXCEPT !.hasWallet = TRUE, !.wallet = SettledWallet(TxWallet(W, t, u), p)]

\* another open transaction has written u's wallet
WalletHeld(i, u) ==
    \E j \in Invs \ {i} : Open(j) /\ inv[j].userId = u /\ inv[j].tx.hasWallet

\* ------------------------------------------------------ the documents
LedgerKey(tag, k) == <<tag, k>>

LockLedgerEntry(i, u, k, p) ==
    [_id |-> <<"ledger", i, "lock">>, userId |-> u, type |-> "CREDIT_LOCK",
     amount |-> p, direction |-> "DEBIT", referenceId |-> <<"draft">>,
     idempotencyKey |-> LedgerKey("lock", k)]

SpendLedgerEntry(i, u, k, p, req) ==
    [_id |-> <<"ledger", i, "spend">>, userId |-> u, type |-> "CREDIT_SPEND",
     amount |-> p, direction |-> "DEBIT", referenceId |-> req._id,
     idempotencyKey |-> LedgerKey("spend", k)]

\* { ...payload, userId, status: 'PROCESSING' }
NewRequest(i, u, k, p) ==
    [_id |-> <<"req", i>>, userId |-> u, idempotencyKey |-> k,
     priceCredits |-> p, status |-> "PROCESSING", error |-> None]

\* Buffer.from(base64, 'base64'): four sextets give three bytes; a trailing
\* group of three gives two bytes, of two gives one, of one gives none.
RECURSIVE FromBase64(_)
FromBase64(s) ==
    IF Len(s) < 2 THEN <<>>
    ELSE IF Len(s) = 2 THEN << s[1] * 4 + (s[2] \div 16) >>
    ELSE IF Len(s) = 3 THEN << s[1] * 4 + (s[2] \div 16),
                               (s[2] % 16) * 16 + (s[3] \div 4) >>
    ELSE << s[1] * 4 + (s[2] \div 16),
            (s[2] % 16) * 16 + (s[3] \div 4),
            (s[3] % 4) * 64 + s[4] >> \o FromBase64(SubSeq(s, 5, Len(s)))

MetadataUri(t) == <<"dpal://metadata/", t>>
ImageUri(t)    == <<"/api/assets/", t, ".png">>

NewAsset(i, u, t, img) ==
    [_id |-> <<"asset", i>>, tokenId |-> t, metadataUri |-> MetadataUri(t),
     imageUri |-> ImageUri(t), createdByUserId |-> u, status |-> "MINTED",
     imageData |-> FromBase64(img)]

\* MintReceipt.create([{ mintRequestId, userId, tokenId, txHash, chain,
\* metadataUri, imageUri, priceCredits, ledgerEntryId }]): the document is
\* written without an idempotencyKey, which NoKey stands for.
\* the receipt that carries the _id of the asset as its ledgerEntryId
NewReceipt_AssetRef(i, u, k, p, req, asset, lockEntry) ==
    [_id |-> <<"receipt", i>>, mintRequestId |-> req._id, userId |-> u,
     tokenId |-> asset.tokenId, metadataUri |-> asset.metadataUri,
     imageUri |-> asset.imageUri, priceCredits |-> p,
     ledgerEntryId |-> asset._id, idempotencyKey |-> NoKey]

NewReceipt(i, u, k, p, req, asset, lockEntry) ==
    [_id |-> <<"receipt", i>>, mintRequestId |-> req._id, userId |-> u,
     tokenId |-> asset.tokenId, metadataUri |-> asset.metadataUri,
     imageUri |-> asset.imageUri, priceCredits |-> p,
     ledgerEntryId |-> lockEntry._id, idempotencyKey |-> NoKey]

NewAudit(i, u, p, asset) ==
    [_id |-> <<"audit", i>>, actorUserId |-> u, action |-> "NFT_MINT",
     entityType |-> "NftAsset", entityId |-> asset._id,
     priceCredits |-> p, tokenId |-> asset.tokenId]

\* ------------------------------------------------- unique indexes
\* LedgerEntry{idempotencyKey unique}
LedgerKeyTaken(docs, d) == \E e \in docs : e.idempotencyKey = d.idempotencyKey
\* MintRequest{(userId, idempotencyKey) unique}
RequestKeyTaken(docs, d) ==
    \E e \in docs : e.userId = d.userId /\ e.idempotencyKey = d.idempotencyKey
\* MintReceipt{(userId, idempotencyKey) unique}
ReceiptKeyTaken(docs, d) ==
    \E e \in docs : e.userId = d.userId /\ e.idempotencyKey = d.idempotencyKey
\* tokenId without its unique index
TokenIdTaken_Never(docs, d) == FALSE

\* NftAsset: tokenId: { type: String, required: true, unique: true }
TokenIdTaken(docs, d) == \E e \in docs : e.tokenId = d.tokenId

\* the error of an insert: a key held by a committed document or by the
\* transaction itself is a duplicate key, one held by another open
\* transaction is a write conflict
InsertError(takenHere, takenElsewhere) ==
    IF takenHere THEN DUPLICATE_KEY
    ELSE IF takenElsewhere THEN WRITE_CONFLICT ELSE None

\* ---------------------------------------------------- the generator
\* a part of the response: inline says whether it has inlineData, data is
\* its base64 text
TextPart      == [inline |-> FALSE, data |-> <<>>]
ImagePart(b)  == [inline |-> TRUE, data |-> b]
\* what ai.models.generateContent can answer: it throws, or it resolves
\* to a response whose candidates are a sequence of part lists
ResponsesOf(Imgs) ==
    {[throws |-> TRUE, candidates |-> <<>>]} \cup
    {[throws |-> FALSE, candidates |-> c] :
        c \in {<<>>, << <<TextPart>> >>, << <<ImagePart(<<>>)>> >>}
              \cup {<< <<TextPart, ImagePart(b)>> >> : b \in Imgs}}

Responses == ResponsesOf(Images)

\* for (const part of parts) if (part.inlineData) { base64Image = data; break }
RECURSIVE ExtractImage(_)
ExtractImage(parts) ==
    IF parts = <<>> THEN <<>>
    ELSE IF Head(parts).inline THEN Head(parts).data
    ELSE ExtractImage(Tail(parts))

\* the error the generation step raises on response r, None when it has an image
GenerationError(r) ==
    IF r.throws THEN PROVIDER_ERROR
    ELSE IF r.candidates = <<>> THEN TYPE_ERROR
    ELSE IF ExtractImage(r.candidates[1]) = <<>> THEN IMAGE_GENERATION_FAILED
    ELSE None

\* --------------------------------------------------- the catch block
\* the secondary failure not swallowed
ThrownError_Secondary(original, secondary) ==
    IF secondary # None THEN secondary ELSE original

\* catch (error) { ...; try { annotate } catch (e) { /* ignore */ }; throw error }
ThrownError(original, secondary) == original

\* a receipt created without { session } survives the abort
AbortTransaction_KeepsReceipts(D, t, u) == [D EXCEPT !.receipts = @ \cup t.receipts]

\* ledger entries created without { session } survive the abort
AbortTransaction_KeepsLedger(D, t, u) == [D EXCEPT !.ledger = @ \cup t.ledger]

\* session.abortTransaction(): the buffered writes are dropped
AbortTransaction(D, t, u) == D

\* session.commitTransaction(): the buffered writes become the committed state
CommitTransaction(D, t, u) ==
    [wallet   |-> IF t.hasWallet THEN [D.wallet EXCEPT ![u] = t.wallet] ELSE D.wallet,
     ledger   |-> D.ledger \cup t.ledger,
     requests |-> D.requests \cup t.requests,
     assets   |-> D.assets \cup t.assets,
     receipts |-> D.receipts \cup t.receipts,
     audits   |-> D.audits \cup t.audits]

Db == [wallet |-> wallet, ledger |-> ledger, requests |-> requests,
       assets |-> assets, receipts |-> receipts, audits |-> audits]

SetDb(D) ==
    /\ wallet' = D.wallet
    /\ ledger' = D.ledger
    /\ requests' = D.requests
    /\ assets' = D.assets
    /\ receipts' = D.receipts
    /\ audits' = D.audits

\* MintRequest.updateOne({ userId, idempotencyKey }, { status: 'FAILED', error })
AnnotateMatch(r, u, k) == r.userId = u /\ r.idempotencyKey = k

Annotated(r, err) == [r EXCEPT !.status = "FAILED", !.error = err]

\* --------------------------------------------------------------- Init
Init ==
    /\ wallet = [u \in Users |-> [balance |-> InitBalance[u], lockedBalance |-> 0]]
    /\ ledger = {}
    /\ requests = {}
    /\ assets = {}
    /\ receipts = {}
    /\ audits = {}
    /\ inv = [i \in Invs |-> Idle]

\* An awaited call of invocation i rejects with err: control goes to the
\* catch block, whose first statement is await session.abortTransaction().
\* The rejection and the abort are one step: the invocation does nothing in
\* between, and to the other invocations a transaction about to abort is
\* an open transaction.
Raise(i, err) ==
    /\ SetDb(AbortTransaction(Db, inv[i].tx, InvUser(i)))
    /\ inv' = [inv EXCEPT ![i].pc = "annotate", ![i].error = err,
                          ![i].tx = NoTx, ![i].image = <<>>]

\* invocation i goes on to pc with its transaction's buffer now t
Step(i, pc, t) ==
    /\ inv' = [inv EXCEPT ![i].pc = pc, ![i].tx = t]
    /\ UNCHANGED db

\* ------------------------------------------------------------ actions
\* executeMintFlow(userId, payload) is called
Call(i, u, k, p) ==
    /\ inv[i].pc = "idle"
    /\ i > 1 => inv[i - 1].pc # "idle"
    /\ inv' = [inv EXCEPT ![i].pc = "gate", ![i].userId = u, ![i].key = k,
                          ![i].price = p]
    /\ UNCHANGED db

\* const existingReceipt = await MintReceipt.findOne(...); if hit, return it
GateHit(i) ==
    /\ inv[i].pc = "gate"
    /\ \E r \in receipts :
         /\ GateMatch(r, InvUser(i), InvKey(i))
         /\ inv' = [inv EXCEPT ![i].pc = "done", ![i].result = {r}]
    /\ UNCHANGED db

\* no receipt matched: startSession(), startTransaction()
GateMiss(i) ==
    /\ inv[i].pc = "gate"
    /\ ~ \E r \in receipts : GateMatch(r, InvUser(i), InvKey(i))
    /\ Step(i, "lock", NoTx)

\* 1. Lock Credits
Lock(i) ==
    /\ inv[i].pc = "lock"
    /\ LET u == InvUser(i)
           p == InvPrice(i)
       IN  IF ~ LockGuard(wallet[u], p) THEN Raise(i, INSUFFICIENT_CREDITS)
           ELSE IF WalletHeld(i, u) THEN Raise(i, WRITE_CONFLICT)
           ELSE LET w == LockWrite(wallet, inv[i].tx, u, p)
                IN  /\ wallet' = w.wallet
                    /\ inv' = [inv EXCEPT ![i].pc = "lockLedger", ![i].tx = w.tx]
                    /\ UNCHANGED <<ledger, requests, assets, receipts, audits>>

\* CreditLedger.create([{ ..., idempotencyKey: `lock-${idempotencyKey}` }], { session })
LockLedger(i) ==
    /\ inv[i].pc = "lockLedger"
    /\ LET d   == LockLedgerEntry(i, InvUser(i), InvKey(i), InvPrice(i))
           err == InsertError(LedgerKeyTaken(ledger \cup inv[i].tx.ledger, d),
                              LedgerKeyTaken(PendingLedger(Invs \ {i}), d))
       IN  IF err # None THEN Raise(i, err)
           ELSE Step(i, "request", [inv[i].tx EXCEPT !.ledger = @ \cup {d}])

\* 2. Initialize Request
Request(i) ==
    /\ inv[i].pc = "request"
    /\ LET d   == NewRequest(i, InvUser(i), InvKey(i), InvPrice(i))
           err == InsertError(RequestKeyTaken(requests \cup inv[i].tx.requests, d),
                              RequestKeyTaken(PendingRequests(Invs \ {i}), d))
       IN  IF err # None THEN Raise(i, err)
           ELSE Step(i, "generate", [inv[i].tx EXCEPT !.requests = @ \cup {d}])

\* 3. Generate Image, 4. Perform Mint: tokenId is synthesized from the clock
\* and a random number
Generate(i, R) ==
    /\ inv[i].pc = "generate"
    /\ \E r \in R :
         IF GenerationError(r) # None THEN Raise(i, GenerationError(r))
         ELSE \E t \in Tokens :
                /\ inv' = [inv EXCEPT ![i].pc = "asset", ![i].tokenId = t,
                                      ![i].image = ExtractImage(r.candidates[1])]
                /\ UNCHANGED db

\* the documents the transaction of i created earlier
OwnLockEntry(i) == CHOOSE d \in inv[i].tx.ledger : d._id = <<"ledger", i, "lock">>
OwnRequest(i)   == CHOOSE d \in inv[i].tx.requests : d._id = <<"req", i>>
OwnAsset(i)     == CHOOSE d \in inv[i].tx.assets : d._id = <<"asset", i>>
OwnReceipt(i)   == CHOOSE d \in inv[i].tx.receipts : d._id = <<"receipt", i>>

\* 5. Create Asset and Store Image Data
Asset(i) ==
    /\ inv[i].pc = "asset"
    /\ LET d   == NewAsset(i, InvUser(i), inv[i].tokenId, inv[i].image)
           err == InsertError(TokenIdTaken(assets \cup inv[i].tx.assets, d),
                              TokenIdTaken(PendingAssets(Invs \ {i}), d))
       IN  IF err # None THEN Raise(i, err)
           ELSE /\ inv' = [inv EXCEPT ![i].pc = "settle", ![i].image = <<>>,
                                      ![i].tx.assets = @ \cup {d}]
                /\ UNCHANGED db

\* 6. Settle Credits
Settle(i) ==
    /\ inv[i].pc = "settle"
    /\ IF WalletHeld(i, InvUser(i)) THEN Raise(i, WRITE_CONFLICT)
       ELSE Step(i, "spendLedger",
                 SettleWrite(wallet, inv[i].tx, InvUser(i), InvPrice(i)))

\* CreditLedger.create([{ ..., idempotencyKey: `spend-${idempotencyKey}` }], { session })
SpendLedger(i) ==
    /\ inv[i].pc = "spendLedger"
    /\ LET d   == SpendLedgerEntry(i, InvUser(i), InvKey(i), InvPrice(i), OwnRequest(i))
           err == InsertError(LedgerKeyTaken(ledger \cup inv[i].tx.ledger, d),
                              LedgerKeyTaken(PendingLedger(Invs \ {i}), d))
       IN  IF err # None THEN Raise(i, err)
           ELSE Step(i, "receipt", [inv[i].tx EXCEPT !.ledger = @ \cup {d}])

\* 7. Final Receipt
Receipt(i) ==
    /\ inv[i].pc = "receipt"
    /\ LET d   == NewReceipt(i, InvUser(i), InvKey(i), InvPrice(i), OwnRequest(i),
                             OwnAsset(i), OwnLockEntry(i))
           err == InsertError(ReceiptKeyTaken(receipts \cup inv[i].tx.receipts, d),
                              ReceiptKeyTaken(PendingReceipts(Invs \ {i}), d))
       IN  IF err # None THEN Raise(i, err)
           ELSE Step(i, "complete", [inv[i].tx EXCEPT !.receipts = @ \cup {d}])

\* MintRequest.updateOne({ _id: request[0]._id }, { status: 'COMPLETED' }, { session })
Complete(i) ==
    /\ inv[i].pc = "complete"
    /\ Step(i, "audit",
            [inv[i].tx EXCEPT !.requests = {IF d._id = OwnRequest(i)._id
                                              THEN [d EXCEPT !.status = "COMPLETED"]
                                              ELSE d : d \in @}])

\* 8. Audit
Audit(i) ==
    /\ inv[i].pc = "audit"
    /\ Step(i, "commit",
            [inv[i].tx EXCEPT !.audits =
                @ \cup {NewAudit(i, InvUser(i), InvPrice(i), OwnAsset(i))}])

\* await session.commitTransaction(); return receipt[0]
Commit(i) ==
    /\ inv[i].pc = "commit"
    /\ SetDb(CommitTransaction(Db, inv[i].tx, InvUser(i)))
    /\ inv' = [inv EXCEPT ![i].pc = "done", ![i].result = {OwnReceipt(i)},
                          ![i].tx = NoTx]

\* any awaited storage call of the transaction can reject (network, server)
StorageFail(i) ==
    /\ inv[i].pc \in StoragePcs
    /\ Raise(i, STORAGE_ERROR)

\* the best-effort MintRequest.updateOne outside the transaction, which
\* may itself reject (secondary # None) and is then ignored; throw error
Annotate(i) ==
    /\ inv[i].pc = "annotate"
    /\ \E secondary \in {None, STORAGE_ERROR} :
         /\ IF secondary = None
              THEN requests' = {IF AnnotateMatch(r, InvUser(i), InvKey(i))
                                  THEN Annotated(r, inv[i].error) ELSE r : r \in requests}
              ELSE requests' = requests
         /\ inv' = [inv EXCEPT ![i].pc = "failed",
                      ![i].annotated = IF secondary = None THEN "ok" ELSE "threw",
                      ![i].thrown = ThrownError(inv[i].error, secondary)]
    /\ UNCHANGED <<wallet, ledger, assets, receipts, audits>>

\* ------------------------------------------------- serveAssetImage
ASSET_NOT_FOUND == "ASSET_NOT_FOUND"

\* the emptiness test a length check would make
BufferTruthy_NonEmpty(b) == Len(b) > 0

\* !asset.imageData: a Buffer is an object, truthy whatever its length
BufferTruthy(b) == TRUE

\* what serveAssetImage(t) answers on the committed assets A
ServeResult(A, t) ==
    LET found == {a \in A : a.tokenId = t}
    IN  IF found = {} \/ ~ BufferTruthy((CHOOSE a \in found : TRUE).imageData)
        THEN [ok |-> FALSE, error |-> ASSET_NOT_FOUND, buffer |-> <<>>,
              mimeType |-> None]
        ELSE [ok |-> TRUE, error |-> None,
              buffer |-> (CHOOSE a \in found : TRUE).imageData,
              mimeType |-> "image/png"]

\* serveAssetImage(tokenId): one read of NftAsset, no write
ServeAssetImage(t) ==
    /\ ServeResult(assets, t).ok \in BOOLEAN
    /\ UNCHANGED vars

\* every step of executeMintFlow but the call itself, the generator
\* answering from R
SagaSteps(R) ==
    \/ \E i \in Invs : GateHit(i)
    \/ \E i \in Invs : GateMiss(i)
    \/ \E i \in Invs : Lock(i)
    \/ \E i \in Invs : LockLedger(i)
    \/ \E i \in Invs : Request(i)
    \/ \E i \in Invs : Generate(i, R)
    \/ \E i \in Invs : Asset(i)
    \/ \E i \in Invs : Settle(i)
    \/ \E i \in Invs : SpendLedger(i)
    \/ \E i \in Invs : Receipt(i)
    \/ \E i \in Invs : Complete(i)
    \/ \E i \in Invs : Audit(i)
    \/ \E i \in Invs : Commit(i)
    \/ \E i \in Invs : StorageFail(i)
    \/ \E i \in Invs : Annotate(i)

Next ==
    \/ \E i \in Invs, u \in Users, k \in Keys, p \in Prices : Call(i, u, k, p)
    \/ SagaSteps(Responses)

Spec == Init /\ [][Next]_vars

\* payload.priceCredits is not validated: the calls of one user with a
\* positive and with a negative price
AnyPrices == {30, -30}

NextAnyPrice ==
    \/ \E i \in Invs, k \in Keys, p \in AnyPrices : Call(i, "u1", k, p)
    \/ SagaSteps(Responses)

SpecAnyPrice == Init /\ [][NextAnyPrice]_vars

\* the mints of one user, the generator answering any image text, and the
\* image reads
NextServe ==
    \/ \E i \in Invs, k \in Keys, p \in Prices : Call(i, "u1", k, p)
    \/ SagaSteps(ResponsesOf(AnyImages))
    \/ \E t \in Tokens : ServeAssetImage(t)

SpecServe == Init /\ [][NextServe]_vars

\* The store after an earlier executeMintFlow("u2", {idempotencyKey: "k1",
\* priceCredits: 30}) has committed: the documents the saga writes for it,
\* under the invocation number 0.
EarlierMint ==
    LET u       == "u2"
        k       == "k1"
        p       == 30
        W       == [v \in Users |-> [balance |-> InitBalance[v], lockedBalance |-> 0]]
        lockE   == LockLedgerEntry(0, u, k, p)
        req     == NewRequest(0, u, k, p)
        asset   == NewAsset(0, u, "t2", <<16, 20, 9, 3>>)
        t       == [hasWallet |-> TRUE,
                    wallet    |-> SettledWallet(LockedWallet(W[u], p), p),
                    ledger    |-> {lockE, SpendLedgerEntry(0, u, k, p, req)},
                    requests  |-> {[req EXCEPT !.status = "COMPLETED"]},
                    assets    |-> {asset},
                    receipts  |-> {NewReceipt(0, u, k, p, req, asset, lockE)},
                    audits    |-> {NewAudit(0, u, p, asset)}]
    IN  CommitTransaction([wallet |-> W, ledger |-> {}, requests |-> {},
                           assets |-> {}, receipts |-> {}, audits |-> {}], t, u)

InitRetry ==
    /\ \E D \in {EarlierMint} :
         /\ wallet = D.wallet
         /\ ledger = D.ledger
         /\ requests = D.requests
         /\ assets = D.assets
         /\ receipts = D.receipts
         /\ audits = D.audits
    /\ inv = [i \in Invs |-> Idle]

\* a caller that retries: each call is made after the one before has
\* returned or thrown
CallAfterReturn(i, u, k, p) ==
    /\ \A j \in Invs : j < i => inv[j].pc \in {"done", "failed"}
    /\ Call(i, u, k, p)

NextRetry ==
    \/ \E i \in Invs, u \in Users, k \in Keys, p \in Prices : CallAfterReturn(i, u, k, p)
    \/ SagaSteps(Responses)

SpecRetry == InitRetry /\ [][NextRetry]_vars

\* The steps of invocation i that the code itself takes once the awaited
\* storage call has answered. The answer of ai.models.generateContent is
\* not among them: the call is awaited with no timeout, and nothing in the
\* code makes it settle.
Progress(i) ==
    \/ GateHit(i) \/ GateMiss(i) \/ Lock(i) \/ LockLedger(i) \/ Request(i)
    \/ Asset(i) \/ Settle(i) \/ SpendLedger(i) \/ Receipt(i) \/ Complete(i)
    \/ Audit(i) \/ Commit(i) \/ Annotate(i)

SpecLive == Init /\ [][Next]_vars /\ \A i \in Invs : WF_vars(Progress(i))

\* ================================================================ claims

\* the committed receipts of the saga whose MintRequest carries (u, k)
ReceiptsFor(u, k) ==
    {r \in receipts : \E q \in requests :
        q._id = r.mintRequestId /\ q.userId = u /\ q.idempotencyKey = k}

SamePair(i, j) ==
    /\ inv[i].pc # "idle" /\ inv[j].pc # "idle"
    /\ InvUser(i) = InvUser(j) /\ InvKey(i) = InvKey(j)

\* what the receipts of (u, k) say was paid
PaidFor(u, k) ==
    IF ReceiptsFor(u, k) = {} THEN 0
    ELSE (CHOOSE r \in ReceiptsFor(u, k) : TRUE).priceCredits

RECURSIVE SumPaid(_, _)
SumPaid(u, K) ==
    IF K = {} THEN 0
    ELSE LET k == CHOOSE x \in K : TRUE
         IN  PaidFor(u, k) + SumPaid(u, K \ {k})

\* the errors of the generation step
GenErrors == {GenerationError(r) : r \in Responses} \ {None}

\* the step taken is the commit of invocation i
IsCommit(i) == inv[i].pc = "commit" /\ inv'[i].pc = "done"

\* no committed ledger entry, asset, receipt or audit event was created by i
NothingFrom(i) ==
    /\ ~ \E d \in ledger : d._id[2] = i
    /\ ~ \E d \in assets \cup receipts \cup audits : d._id[2] = i

\* C1: whatever the number and interleaving of invocations with the same
\* (userId, idempotencyKey), the committed state holds at most one receipt
\* for the pair, and the balance is down by the price of each pair's receipt
\* and by nothing else: once for a pair with a receipt, not at all for a
\* pair without.
C1_OneReceiptOneDebit ==
    \A u \in Users :
        /\ \A k \in Keys : Cardinality(ReceiptsFor(u, k)) <= 1
        /\ InitBalance[u] - wallet[u].balance = SumPaid(u, Keys)

C1_Witness ==
    \E i, j \in Invs :
        /\ i # j /\ SamePair(i, j)
        /\ inv[i].pc = "done" /\ inv[i].result = ReceiptsFor(InvUser(i), InvKey(i))
        /\ inv[j].pc = "failed" /\ inv[j].error \in {DUPLICATE_KEY, WRITE_CONFLICT}
        /\ wallet[InvUser(i)].balance = InitBalance[InvUser(i)] - InvPrice(i)

\* C2 (as claimed): when a receipt is committed for (userId, idempotencyKey),
\* a later call with the pair leaves the gate by returning that receipt, and
\* so writes nothing.
C2_GateReturnsStored ==
    [][\A i \in Invs :
         (/\ inv[i].pc = "gate" /\ inv'[i].pc # "gate"
          /\ ReceiptsFor(InvUser(i), InvKey(i)) # {})
         => (/\ inv'[i].pc = "done"
             /\ inv'[i].result = ReceiptsFor(InvUser(i), InvKey(i)))]_vars

\* C3 (as claimed): while two invocations with the same pair are both past
\* the gate and uncommitted, neither is thrown an error, unless funds,
\* generation or the storage itself fail.
C3_ConcurrentSamePairNoError ==
    [][\A i, j \in Invs :
         (i # j /\ SamePair(i, j) /\ Open(i) /\ Open(j))
         => inv'[j].error \in {None, INSUFFICIENT_CREDITS, STORAGE_ERROR} \cup GenErrors]_vars

\* C4: an invocation that ends in an error changed neither the committed
\* wallet nor the committed ledger, assets, receipts and audit events: only
\* the commit step of an invocation changes them, and none of them was
\* created by an invocation that failed.
C4_FailureLeavesNoTrace ==
    /\ [](\A i \in Invs : inv[i].pc \in {"annotate", "failed"} => NothingFrom(i))
    /\ [][(\A i \in Invs : ~ IsCommit(i))
          => UNCHANGED <<wallet, ledger, assets, receipts, audits>>]_vars

C4_Witness ==
    \E i \in Invs :
        /\ inv[i].pc = "failed" /\ inv[i].error = IMAGE_GENERATION_FAILED
        /\ wallet[InvUser(i)] = [balance |-> InitBalance[InvUser(i)], lockedBalance |-> 0]
        /\ NothingFrom(i)

\* C5 (as claimed): after a generation failure whose annotation write did
\* not fail, a MintRequest of the pair exists with status FAILED and the error.
C5_FailedRequestExists ==
    \A i \in Invs :
        (inv[i].pc = "failed" /\ inv[i].error \in GenErrors /\ inv[i].annotated = "ok")
        => \E q \in requests :
             /\ q.userId = InvUser(i) /\ q.idempotencyKey = InvKey(i)
             /\ q.status = "FAILED" /\ q.error = inv[i].error

\* C6: the commit of an invocation takes priceCredits off the balance,
\* leaves lockedBalance as it was, adds the lock and the spend ledger entry
\* of its key, one asset and the receipt it returns; no other step of an
\* invocation changes wallet, ledger, assets or receipts.
C6_SuccessDebitsOnce ==
    [][\A i \in Invs :
         IF IsCommit(i)
         THEN LET u == InvUser(i) IN
              /\ wallet'[u].balance = wallet[u].balance - InvPrice(i)
              /\ wallet'[u].lockedBalance = wallet[u].lockedBalance
              /\ \A v \in Users \ {u} : wallet'[v] = wallet[v]
              /\ ledger \subseteq ledger'
              /\ Cardinality(ledger' \ ledger) = 2
              /\ {d.idempotencyKey : d \in ledger' \ ledger}
                   = {LedgerKey("lock", InvKey(i)), LedgerKey("spend", InvKey(i))}
              /\ \A d \in ledger' \ ledger : d.userId = u /\ d.amount = InvPrice(i)
              /\ receipts \subseteq receipts' /\ Cardinality(receipts' \ receipts) = 1
              /\ assets \subseteq assets' /\ Cardinality(assets' \ assets) = 1
              /\ inv'[i].result = receipts' \ receipts
         ELSE inv'[i] # inv[i] => UNCHANGED <<wallet, ledger, assets, receipts>>]_vars

C6_Witness ==
    \E i \in Invs :
        /\ inv[i].pc = "done" /\ inv[i].result # {}
        /\ \A r \in inv[i].result : r._id = <<"receipt", i>>
        /\ wallet[InvUser(i)].balance = InitBalance[InvUser(i)] - InvPrice(i)
        /\ Cardinality(ledger) = 2

\* C7: a lock attempted on a balance below priceCredits ends the invocation
\* with INSUFFICIENT_CREDITS (unless the storage call itself is rejected),
\* writes nothing, and nothing of an invocation that failed so is committed.
C7_InsufficientFunds ==
    /\ [](\A i \in Invs :
            inv[i].error = INSUFFICIENT_CREDITS
            => /\ NothingFrom(i)
               /\ ~ \E q \in requests : q._id = <<"req", i>>)
    /\ [][\A i \in Invs :
            (/\ inv[i].pc = "lock" /\ inv'[i] # inv[i]
             /\ wallet[InvUser(i)].balance < InvPrice(i))
            => /\ inv'[i].pc = "annotate"
               /\ inv'[i].error \in {INSUFFICIENT_CREDITS, STORAGE_ERROR}
               /\ inv'[i].tx = NoTx
               /\ UNCHANGED db]_vars

C7_Witness ==
    \E i \in Invs :
        /\ inv[i].pc = "failed" /\ inv[i].error = INSUFFICIENT_CREDITS
        /\ wallet[InvUser(i)].balance < InvPrice(i)

\* C8: no two committed NftAsset records share a tokenId.
C8_TokenIdUnique ==
    \A a, b \in assets : a.tokenId = b.tokenId => a = b

\* a mint whose synthesized tokenId is the tokenId of a committed asset
C8_Witness ==
    \E i \in Invs :
        /\ inv[i].pc = "asset"
        /\ \E a \in assets : a.tokenId = inv[i].tokenId

\* C9 (as claimed): every failure of the generation step is the one
\* GenerationFailed error.
C9_OneGenerationError ==
    \A i \in Invs :
        inv[i].error \in GenErrors => inv[i].error = IMAGE_GENERATION_FAILED

C11_ServeAssetImage ==
    /\ \A r \in receipts :
         \E a \in assets :
            /\ a.tokenId = r.tokenId
            /\ ServeResult(assets, r.tokenId) =
                 [ok |-> TRUE, error |-> None, buffer |-> a.imageData,
                  mimeType |-> "image/png"]
    /\ \A t \in Tokens :
         (~ \E a \in assets : a.tokenId = t)
         => ~ ServeResult(assets, t).ok /\ ServeResult(assets, t).error = ASSET_NOT_FOUND

C11_Witness ==
    /\ \E r \in receipts : ServeResult(assets, r.tokenId).buffer = <<65, 66, 67>>
    /\ \E i \in Invs :
         /\ inv[i].pc = "failed" /\ inv[i].tokenId # None
         /\ ~ ServeResult(assets, inv[i].tokenId).ok

\* C12 (as claimed): balance and lockedBalance are never negative, in the
\* committed wallet and in the wallet as an open saga has written it, and
\* settle takes from lockedBalance no more than the saga locked.
C12_WalletNeverNegative ==
    /\ \A u \in Users : wallet[u].balance >= 0 /\ wallet[u].lockedBalance >= 0
    /\ \A i \in Invs :
         (Open(i) /\ inv[i].tx.hasWallet)
         => /\ inv[i].tx.wallet.balance >= 0
            /\ inv[i].tx.wallet.lockedBalance >= 0
            /\ inv[i].pc \in {"spendLedger", "receipt", "complete", "audit", "commit"}
                 => inv[i].tx.wallet.lockedBalance >= wallet[InvUser(i)].lockedBalance

\* C13 (as claimed): the MintRequest is marked COMPLETED before the
\* MintReceipt is persisted: a transaction that holds its receipt holds its
\* request as COMPLETED.
C13_CompletedBeforeReceipt ==
    \A i \in Invs :
        inv[i].tx.receipts # {}
        => \A q \in inv[i].tx.requests : q.status = "COMPLETED"

\* C14: in every committed state each receipt has the NFT_MINT audit event
\* of its mint and each audit event has its receipt.
C14_ReceiptIffAudit ==
    /\ \A r \in receipts :
         \E a \in audits :
            /\ a._id[2] = r._id[2] /\ a.action = "NFT_MINT"
            /\ a.tokenId = r.tokenId /\ a.actorUserId = r.userId
    /\ \A a \in audits :
         \E r \in receipts : a._id[2] = r._id[2] /\ a.tokenId = r.tokenId

\* one mint is committed while another holds its receipt with no audit
\* event yet, where a failure aborts it
C14_Witness ==
    /\ receipts # {} /\ audits # {}
    /\ \E i \in Invs :
         /\ inv[i].pc \in {"complete", "audit"}
         /\ inv[i].tx.receipts # {} /\ inv[i].tx.audits = {}
         /\ ENABLED StorageFail(i)

C16_SagaTerminates ==
    \A i \in Invs : (inv[i].pc \in TxPcs) ~> (inv[i].pc \in {"done", "failed"})

\* C17 (as claimed): COMPLETED is terminal: no step changes a COMPLETED
\* MintRequest, and the MintRequest a receipt references has status
\* COMPLETED.
C17_CompletedIsTerminal ==
    /\ [](\A r \in receipts : \A q \in requests :
            q._id = r.mintRequestId => q.status = "COMPLETED")
    /\ [][\A q \in requests :
            q.status = "COMPLETED"
            => \E q2 \in requests' : q2._id = q._id /\ q2.status = "COMPLETED"]_vars

\* what the receipts of user u say was paid, receipt by receipt
RECURSIVE SumReceipts(_)
SumReceipts(S) ==
    IF S = {} THEN 0
    ELSE LET r == CHOOSE x \in S : TRUE
         IN  r.priceCredits + SumReceipts(S \ {r})

\* C18: for every user the committed balance is the initial balance less
\* the priceCredits of the user's receipts, and the committed lockedBalance
\* is its initial value.
C18_FundsConserved ==
    \A u \in Users :
        /\ InitBalance[u] - wallet[u].balance
             = SumReceipts({r \in receipts : r.userId = u})
        /\ wallet[u].lockedBalance = 0

\* a mint of the user is committed and paid, and another invocation has
\* failed at the generation step, after its lock
C18_Witness ==
    /\ \E r \in receipts : r.userId = "u1" /\ wallet["u1"].balance = InitBalance["u1"] - r.priceCredits
    /\ \E i \in Invs : inv[i].pc = "failed" /\ inv[i].error \in GenErrors

\* C19 (as claimed): no step raises the committed balance of a wallet,
\* whatever the priceCredits of the calls.
C19_BalanceNeverRises ==
    [][\A u \in Users : wallet'[u].balance <= wallet[u].balance]_vars

\* C20: every receipt references an existing MintRequest of its user, an
\* existing CREDIT_LOCK LedgerEntry of its user for its priceCredits, and
\* the tokenId of exactly one NftAsset, MINTED and created by its user.
C20_ReceiptReferences ==
    \A r \in receipts :
        /\ \E q \in requests : q._id = r.mintRequestId /\ q.userId = r.userId
        /\ \E e \in ledger :
              /\ e._id = r.ledgerEntryId /\ e.type = "CREDIT_LOCK"
              /\ e.userId = r.userId /\ e.amount = r.priceCredits
        /\ Cardinality({a \in assets : a.tokenId = r.tokenId}) = 1
        /\ \A a \in assets :
              a.tokenId = r.tokenId
              => a.status = "MINTED" /\ a.createdByUserId = r.userId

\* a receipt is held whose request a later failing call has rewritten
C20_Witness ==
    \E r \in receipts : \E q \in requests :
        /\ q._id = r.mintRequestId /\ q.status = "FAILED"
        /\ \E e \in ledger : e._id = r.ledgerEntryId
        /\ \E a \in assets : a.tokenId = r.tokenId

====
